---- MODULE Spec2Model ----
(***************************************************************************)
(* express-fs-routes: the RouteEngine of lib/register.ts.                  *)
(*                                                                         *)
(* Strings that the code inspects character by character (file paths,      *)
(* directory entries, route paths) are sequences of one-character strings, *)
(* so that startsWith, replace and the like are computed as the code       *)
(* computes them.  JavaScript null/undefined values are carried by a       *)
(* boolean field next to the value (isArray, isNull) or by the token       *)
(* "null" where the field is a plain string.                               *)
(***************************************************************************)
EXTENDS Integers, Sequences, FiniteSets, TLC

VARIABLES
    options,        \* Engine.$options, as parsed by setOptions
    env,            \* process.env.NODE_ENV || "development"
    registry,       \* Engine.$registry
    router,         \* app.use calls made on the Express app, in call order
    defaults,       \* the module-level DEFAULT_ROUTE_OPTIONS object
    pc,             \* state of the latest run() promise
    runId,          \* number of run() calls made so far
    budget,         \* number of run() calls the caller still makes
    chunkAt,        \* createSafePromises: index i of the chunk being awaited
    pending,        \* registerRoute promises still awaiting import()
    calls,          \* beforeRegistration and gate invocations of the latest run
    loadFailed,     \* positions whose import() rejected in the latest run
    gate,           \* input and verdict of one Environment Gate evaluation
    urlCase         \* input and result of the case of a one-operation specification

vars == <<options, env, registry, router, defaults, pc, runId, budget, chunkAt,
          pending, calls, loadFailed, gate, urlCase>>

engineVars == <<options, env, registry, router, defaults, pc, runId, budget, chunkAt,
                pending, calls, loadFailed>>

gateVars == <<options, env, registry, router, defaults, pc, runId, budget, chunkAt,
              pending, calls, loadFailed, gate>>

-----------------------------------------------------------------------------
(* Bounds of the model *)

\* run() calls made, one after the other, on one engine (SpecRerun)
MaxRuns == 2

\* constants.ts sets MAX_SAFE_PROMISES = 100; the model scales the chunk size
\* down so that a tree of a few files spans several chunks
MAX_SAFE_PROMISES == 2

\* keys of an environmentRoutes map drawn for the Environment Gate
MaxEnvKeys == 2

\* characters of a route path drawn for slug rewriting
MaxUrlLen == 6

\* directories between the scanned root and a file drawn for URL derivation
MaxDirs == 1

-----------------------------------------------------------------------------
(* Strings *)

WILD_CARD_TOKEN == "*"

NULL_PATH == <<"null">>

StartsWith(s, p) ==
    /\ Len(p) <= Len(s)
    /\ SubSeq(s, 1, Len(p)) = p

EndsWith(s, p) ==
    /\ Len(p) <= Len(s)
    /\ SubSeq(s, Len(s) - Len(p) + 1, Len(s)) = p

\* the root directory of the scan, Engine.$currentDirectory
currentDirectory == <<"/", "r">>

\* path.isAbsolute on posix
isAbsolute(p) == Len(p) > 0 /\ p[1] = "/"

\* Engine.resolveFilePath: an absolute entry is used as given, a relative
\* one is resolved against the root directory (path.resolve of a plain
\* relative name appends it after a separator)
resolveFilePath(filePath) ==
    IF isAbsolute(filePath) THEN filePath
    ELSE currentDirectory \o <<"/">> \o filePath

-----------------------------------------------------------------------------
(* Environment Gate *)

\* the for..in / for..of loops of environmentBasedRegistration: proceed is
\* null ("null"), false or true; a matching directory overwrites it only
\* while it is null or false
RECURSIVE gateDirs(_, _, _, _, _)
gateDirs(dirs, k, nodeEnv, absolute_path, proceed) ==
    IF k > Len(dirs) THEN proceed
    ELSE LET resolved == resolveFilePath(dirs[k])
             next == IF StartsWith(absolute_path, resolved)
                        /\ proceed \in {"false", "null"}
                     THEN (IF nodeEnv = env THEN "true" ELSE "false")
                     ELSE proceed
         IN gateDirs(dirs, k + 1, nodeEnv, absolute_path, next)

RECURSIVE gateKeys(_, _, _, _)
gateKeys(envRoutes, k, absolute_path, proceed) ==
    IF k > Len(envRoutes) THEN proceed
    ELSE LET e == envRoutes[k]
             next == IF e.isArray
                     THEN gateDirs(e.dirs, 1, e.env, absolute_path, proceed)
                     ELSE proceed
         IN gateKeys(envRoutes, k + 1, absolute_path, next)

\* a bug a refactoring could introduce: the directory map is consulted first
environmentBasedRegistration_mapFirst(absolute_path, route_options, environmentRoutes) ==
    IF route_options.isUndefined THEN TRUE
    ELSE IF ~environmentRoutes.isUndefined /\ Len(environmentRoutes.keys) > 0
              /\ gateKeys(environmentRoutes.keys, 1, absolute_path, "null") # "null"
    THEN gateKeys(environmentRoutes.keys, 1, absolute_path, "null") = "true"
    ELSE IF route_options.environments.isArray
    THEN \E k \in 1..Len(route_options.environments.items) :
            \/ route_options.environments.items[k] = WILD_CARD_TOKEN
            \/ route_options.environments.items[k] = env
    ELSE TRUE

\* a bug: every matching directory overwrites the verdict (last match wins)
environmentBasedRegistration_lastWins(absolute_path, route_options, environmentRoutes) ==
    LET RECURSIVE last(_, _, _)
        last(k, j, proceed) ==
            IF k > Len(environmentRoutes.keys) THEN proceed
            ELSE LET e == environmentRoutes.keys[k] IN
                 IF ~e.isArray \/ j > Len(e.dirs) THEN last(k + 1, 1, proceed)
                 ELSE last(k, j + 1,
                           IF StartsWith(absolute_path, resolveFilePath(e.dirs[j]))
                           THEN (IF e.env = env THEN "true" ELSE "false")
                           ELSE proceed)
    IN
    IF route_options.isUndefined THEN TRUE
    ELSE IF route_options.environments.isArray
    THEN \E k \in 1..Len(route_options.environments.items) :
            \/ route_options.environments.items[k] = WILD_CARD_TOKEN
            \/ route_options.environments.items[k] = env
    ELSE IF environmentRoutes.isUndefined \/ Len(environmentRoutes.keys) = 0
    THEN TRUE
    ELSE last(1, 1, "null") # "false"

\* Engine.environmentBasedRegistration: the value handed to the callback
environmentBasedRegistration(absolute_path, route_options, environmentRoutes) ==
    IF route_options.isUndefined THEN TRUE
    ELSE IF route_options.environments.isArray
    THEN \E k \in 1..Len(route_options.environments.items) :
            \/ route_options.environments.items[k] = WILD_CARD_TOKEN
            \/ route_options.environments.items[k] = env
    ELSE IF environmentRoutes.isUndefined \/ Len(environmentRoutes.keys) = 0
    THEN TRUE
    ELSE LET proceed == gateKeys(environmentRoutes.keys, 1, absolute_path, "null")
         IN IF proceed = "null" THEN TRUE ELSE proceed = "true"

-----------------------------------------------------------------------------
(* String helpers of utils.ts and of node's path module (posix) *)

\* index of the first occurrence of sub in s at or after position from, 0 if none
RECURSIVE IndexFrom(_, _, _)
IndexFrom(s, sub, from) ==
    IF from + Len(sub) - 1 > Len(s) THEN 0
    ELSE IF SubSeq(s, from, from + Len(sub) - 1) = sub THEN from
    ELSE IndexFrom(s, sub, from + 1)

\* index of the last occurrence of the character c in s, 0 if none
RECURSIVE LastIndexOfChar(_, _, _)
LastIndexOfChar(s, c, k) ==
    IF k = 0 THEN 0
    ELSE IF s[k] = c THEN k
    ELSE LastIndexOfChar(s, c, k - 1)

\* String.prototype.replace(sub, rep) with a string pattern: first occurrence
replaceFirst(s, sub, rep) ==
    LET i == IndexFrom(s, sub, 1)
    IN IF i = 0 THEN s
       ELSE SubSeq(s, 1, i - 1) \o rep \o SubSeq(s, i + Len(sub), Len(s))

\* s.replace(/\\/g, "/")
backslashesToSlashes(s) ==
    [k \in 1..Len(s) |-> IF s[k] = "\\" THEN "/" ELSE s[k]]

\* utils.ensureLeadingToken
ensureLeadingToken(value, token) ==
    IF ~StartsWith(value, token) THEN token \o value ELSE value

\* utils.removeFileExtension: value.replace(/\.[^/.]+$/, "")
removeFileExtension(value) ==
    LET dot == LastIndexOfChar(value, ".", Len(value))
    IN IF /\ dot > 0
          /\ dot < Len(value)
          /\ \A k \in (dot + 1)..Len(value) : value[k] # "/"
       THEN SubSeq(value, 1, dot - 1)
       ELSE value

\* number of trailing "/" characters of p
RECURSIVE TrailingSlashes(_, _)
TrailingSlashes(p, k) ==
    IF k = 0 \/ p[k] # "/" THEN Len(p) - k
    ELSE TrailingSlashes(p, k - 1)

\* path.basename (posix, no suffix argument)
basename(p) ==
    LET end == Len(p) - TrailingSlashes(p, Len(p))
        slash == LastIndexOfChar(p, "/", end)
    IN SubSeq(p, slash + 1, end)

\* path.dirname (posix)
dirname(p) ==
    LET hasRoot == Len(p) > 0 /\ p[1] = "/"
        last == Len(p) - TrailingSlashes(p, Len(p))
        \* 1-based position of the last "/" that precedes a non-slash
        \* character, looked for after the first character only
        slash == LastIndexOfChar(p, "/", last)
    IN IF Len(p) = 0 THEN <<".">>
       ELSE IF slash <= 1
            THEN (IF hasRoot THEN <<"/">> ELSE <<".">>)
       ELSE IF hasRoot /\ slash = 2 THEN <<"/", "/">>
       ELSE SubSeq(p, 1, slash - 1)

-----------------------------------------------------------------------------
(* Route URL derivation *)

EXPRESS_PARAMS_TOKEN == <<":">>

\* paramsRegex[name]: the pattern stored under name, <<>> when there is none
RECURSIVE lookupRegex(_, _, _)
lookupRegex(entries, name, k) ==
    IF k > Len(entries) THEN <<>>
    ELSE IF entries[k].name = name THEN entries[k].regex
    ELSE lookupRegex(entries, name, k + 1)

\* the while loop of Engine.paramsReplacement: SLUG_REGEX = /\[(.*?)\]/gi is
\* executed over the original url from position pos on, and each match is
\* replaced, by its text, in the url modified so far
RECURSIVE slugLoop(_, _, _, _)
slugLoop(url, pos, modifiedUrl, entries) ==
    LET open == IndexFrom(url, <<"[">>, pos)
        close == IF open = 0 THEN 0 ELSE IndexFrom(url, <<"]">>, open + 1)
    IN IF open = 0 \/ close = 0 THEN modifiedUrl
       ELSE LET slug == SubSeq(url, open, close)
                name == SubSeq(url, open + 1, close - 1)
                regex == lookupRegex(entries, name, 1)
                regexReplacer ==
                    EXPRESS_PARAMS_TOKEN \o name \o
                    (IF Len(regex) > 0 THEN <<"(">> \o regex \o <<")">> ELSE <<>>)
            IN slugLoop(url, close + 1,
                        replaceFirst(modifiedUrl, slug, regexReplacer), entries)

\* Engine.paramsReplacement
paramsReplacement(url, paramsRegex) ==
    IF paramsRegex.isUndefined THEN url
    ELSE slugLoop(url, 1, url, paramsRegex.entries)

\* the for loop over options.indexNames of createRouteUrl: the first entry
\* whose extension-stripped name equals the basename collapses one level
RECURSIVE collapseIndex(_, _, _)
collapseIndex(routePath, indexNames, k) ==
    IF k > Len(indexNames) THEN routePath
    ELSE IF basename(routePath) = removeFileExtension(indexNames[k])
    THEN dirname(routePath)
    ELSE collapseIndex(routePath, indexNames, k + 1)

\* s.replace(/\/$/, "")
stripTrailingSlash(s) ==
    IF Len(s) > 0 /\ s[Len(s)] = "/" THEN SubSeq(s, 1, Len(s) - 1) ELSE s

\* createRouteUrl: the currentDirectory prefix is removed from the path
stripCurrentDirectory(routePath) ==
    IF StartsWith(routePath, currentDirectory)
    THEN replaceFirst(routePath, currentDirectory, <<>>) ELSE routePath

\* createRouteUrl: options.appMount, with a leading "/", is put in front
prependAppMount(routePath, opts) ==
    IF Len(opts.appMount) > 0
    THEN ensureLeadingToken(routePath, ensureLeadingToken(opts.appMount, <<"/">>))
    ELSE routePath

\* createRouteUrl, isIndex true: base is removed unless it equals appMount
removeIndexBase(routePath, base, opts) ==
    IF base # opts.appMount THEN replaceFirst(routePath, base, <<>>) ELSE routePath

\* createRouteUrl: the isIndex branches
applyIsIndex(routePath, routeOptions, opts) ==
    IF routeOptions.isIndex = "null"
    THEN collapseIndex(routePath, opts.indexNames, 1)
    ELSE IF routeOptions.isIndex = "true"
    THEN removeIndexBase(routePath,
                         stripTrailingSlash(
                             ensureLeadingToken(basename(routePath), <<"/">>)),
                         opts)
    ELSE routePath

\* createRouteUrl: if (routePath.endsWith("/")) the trailing "/" is removed
removeTrailingSlash(routePath) ==
    IF EndsWith(routePath, <<"/">>) THEN stripTrailingSlash(routePath) ELSE routePath

\* Engine.createRouteUrl
createRouteUrl(routeOptions, absolute_path, opts) ==
    ensureLeadingToken(
        paramsReplacement(
            removeTrailingSlash(
                applyIsIndex(
                    prependAppMount(
                        backslashesToSlashes(
                            stripCurrentDirectory(
                                removeFileExtension(absolute_path))),
                        opts),
                    routeOptions, opts)),
            routeOptions.paramsRegex),
        <<"/">>)

-----------------------------------------------------------------------------
(* The scanned directory and the modules in it *)

File(p) == [type |-> "file", absolute_path |-> p, children |-> <<>>]

Directory(p, children) ==
    [type |-> "directory", absolute_path |-> p, children |-> children]

P_a == <<"/", "r", "/", "a", ".", "j", "s">>
P_d == <<"/", "r", "/", "d">>
P_b == <<"/", "r", "/", "d", "/", "b", ".", "j", "s">>
P_c == <<"/", "r", "/", "d", "/", "c", ".", "j", "s">>
P_e == <<"/", "r", "/", "e", ".", "j", "s">>

\* what createDirectoryTree returns for the root directory: directory
\* entries in readdir order, each directory followed by its own entries
TreeNode ==
    Directory(currentDirectory,
              << File(P_a),
                 Directory(P_d, << File(P_b), File(P_c) >>),
                 File(P_e) >>)

\* directory-tree.ts flattenTreeNode: depth-first, a node before its
\* children, children in the order of the children array, files only
RECURSIVE flattenNodes(_)
flattenNodes(nodes) ==
    IF Len(nodes) = 0 THEN <<>>
    ELSE LET node == Head(nodes)
         IN (IF node.type = "file" THEN <<node>> ELSE <<>>)
            \o flattenNodes(node.children)
            \o flattenNodes(Tail(nodes))

flattenTreeNode(treeNode) == flattenNodes(<<treeNode>>)

flattenTree == flattenTreeNode(TreeNode)

NoRawOptions ==
    [isObject |-> FALSE,
     environments |-> [kind |-> "undefined", items |-> <<>>],
     skip |-> FALSE,
     isIndex |-> "null",
     paramsRegex |-> [isObject |-> FALSE, entries |-> <<>>],
     metadata |-> "undefined"]

GetRoot == <<[method |-> "get", path |-> <<"/">>, middleware_count |-> 1]>>

\* what import() of each file yields when it does not throw: whether the
\* default export is a function, the exported routeOptions and the
\* router's stack of method layers
Module(absolute_path) ==
    IF absolute_path = P_c
    THEN [isFunction |-> TRUE,
          routeOptions |-> [NoRawOptions EXCEPT !.isObject = TRUE, !.skip = TRUE],
          stack |-> GetRoot]
    ELSE IF absolute_path = P_e
    THEN [isFunction |-> FALSE, routeOptions |-> NoRawOptions, stack |-> <<>>]
    ELSE [isFunction |-> TRUE, routeOptions |-> NoRawOptions, stack |-> GetRoot]

\* message of the error a failing import() rejects with
LOAD_ERROR == <<"Cannot find module">>

\* message of the error a failing app.use / customMiddleware call throws
BIND_ERROR == <<"app.use() requires a middleware function">>

-----------------------------------------------------------------------------
(* Option resolution *)

\* constants.ts DEFAULT_ROUTE_OPTIONS, the value the shared object starts with
DEFAULT_ROUTE_OPTIONS ==
    [isUndefined |-> FALSE,
     environments |-> [isArray |-> FALSE, items |-> <<>>],
     isIndex |-> "null",
     skip |-> FALSE,
     paramsRegex |-> [isUndefined |-> FALSE, entries |-> <<>>],
     metadata |-> "{}"]

\* parseRouteHandlerOptions, for (const pathName in options.paramsRegex):
\* a string stays, a RegExp becomes its source, anything else is deleted
RECURSIVE convertParamsRegex(_)
convertParamsRegex(entries) ==
    IF Len(entries) = 0 THEN <<>>
    ELSE (IF Head(entries).kind \in {"string", "RegExp"}
          THEN <<[Head(entries) EXCEPT !.kind = "string"]>> ELSE <<>>)
         \o convertParamsRegex(Tail(entries))

\* whether a metadata value is an object: "{}" and "{k}" are, "undefined"
\* and the number "7" are not
isObjectMetadata(metadata) == metadata \in {"{}", "{k}"}

\* parse-options.ts parseRouteHandlerOptions, for an object argument: a
\* fresh object, environments normalised to an array or to the default null
parseRouteHandlerOptions(raw) ==
    [isUndefined |-> FALSE,
     environments |->
        IF raw.environments.kind = "string"
        THEN [isArray |-> TRUE, items |-> raw.environments.items]
        ELSE IF raw.environments.kind = "array" /\ Len(raw.environments.items) > 0
        THEN [isArray |-> TRUE, items |-> raw.environments.items]
        ELSE DEFAULT_ROUTE_OPTIONS.environments,
     isIndex |-> raw.isIndex,
     skip |-> raw.skip,
     paramsRegex |->
        [isUndefined |-> FALSE,
         entries |-> IF raw.paramsRegex.isObject /\ Len(raw.paramsRegex.entries) > 0
                     THEN convertParamsRegex(raw.paramsRegex.entries)
                     ELSE <<>>],
     metadata |-> IF isObjectMetadata(raw.metadata) THEN raw.metadata ELSE "{}"]

\* register.ts getRouteOptions: a handler without a routeOptions object gets
\* the shared DEFAULT_ROUTE_OPTIONS object itself (ref "DEFAULT"), any other
\* handler an object of its own (ref "own")
getRouteOptions(module) ==
    IF module.routeOptions.isObject
    THEN [ref |-> "own", val |-> parseRouteHandlerOptions(module.routeOptions)]
    ELSE [ref |-> "DEFAULT", val |-> DEFAULT_ROUTE_OPTIONS]

\* the empty object createRouteSchema starts route_options with
EmptyRouteOptions ==
    [ref |-> "empty",
     val |-> [DEFAULT_ROUTE_OPTIONS EXCEPT !.paramsRegex.isUndefined = TRUE]]

\* the content of a route_options reference at this moment
Deref(route_options) ==
    IF route_options.ref = "DEFAULT" THEN defaults ELSE route_options.val

-----------------------------------------------------------------------------
(* Schema building *)

NoText == <<>>

EMPTY_HANDLER_ERROR == <<"Most likely forgot to export a default function.">>
HOOK_ERROR == <<"The beforeRegistration hook returned an invalid value.">>
SKIP_MESSAGE == <<"Route was skipped by the routeOptions.skip flag">>
SkippedFor(environment) == <<"Route was skipped for ", environment>>
RegisteredFor(environment) == <<"Route was registered successfully for ", environment>>

\* createRouteSchema: one RouteLayer per layer of the handler's stack
routerLayer(layer, basePath) ==
    [method |-> layer.method,
     middleware_count |-> layer.middleware_count,
     extended_path |-> layer.path,
     complete_path |-> IF layer.path = <<"/">> THEN basePath
                       ELSE basePath \o layer.path]

\* a bug: base_path is assigned before the early return for a null or
\* empty handler, so a record without layers carries a path
createRouteSchema_pathFirst(isNull, stack, handlerOptions, node, run, idx) ==
    LET basePath == createRouteUrl(Deref(handlerOptions),
                                   node.absolute_path, options)
    IN [absolute_path |-> node.absolute_path,
        base_path |-> basePath,
        layers |-> IF isNull THEN <<>>
                   ELSE [k \in 1..Len(stack) |-> routerLayer(stack[k], basePath)],
        route_options |-> IF isNull \/ Len(stack) = 0
                          THEN EmptyRouteOptions ELSE handlerOptions,
        status |-> "null", error |-> NoText, message |-> NoText,
        run |-> run, idx |-> idx]

\* Engine.createRouteSchema without the modifier: handlerOptions is the
\* routeOptions reference of the handler, isNull tells a null handler.
\* run and idx are not fields of the code's schema: they name the run()
\* call and the position in flattenTree that produced the record.
createRouteSchema(isNull, stack, handlerOptions, node, run, idx) ==
    IF isNull \/ Len(stack) = 0
    THEN [absolute_path |-> node.absolute_path,
          base_path |-> NULL_PATH,
          layers |-> <<>>,
          route_options |-> EmptyRouteOptions,
          status |-> "null", error |-> NoText, message |-> NoText,
          run |-> run, idx |-> idx]
    ELSE LET basePath == createRouteUrl(Deref(handlerOptions),
                                        node.absolute_path, options)
         IN [absolute_path |-> node.absolute_path,
             base_path |-> basePath,
             layers |-> [k \in 1..Len(stack) |-> routerLayer(stack[k], basePath)],
             route_options |-> handlerOptions,
             status |-> "null", error |-> NoText, message |-> NoText,
             run |-> run, idx |-> idx]

\* what a registerRoute continuation does to the engine: the records it
\* appends, the app.use calls it makes, the value it leaves in the shared
\* default options, the hook and gate invocations, and the message of the
\* error it throws (NoText when it returns)
Effect(records, binds, newDefaults, newCalls, thrown) ==
    [records |-> records, binds |-> binds, defaults |-> newDefaults,
     calls |-> newCalls, thrown |-> thrown]

\* the values the editing hook writes (hooks.test.ts: "/my-new-path")
MY_NEW_PATH == <<"/", "m">>
PRODUCTION_ONLY == [isArray |-> TRUE, items |-> <<"production">>]

\* a bug: the hook is handed a copy and its result is dropped, so nothing
\* it writes reaches the skip check or the gate
beforeRegistration_writesLost(schema) ==
    [isObject |-> TRUE, same |-> TRUE, schema |-> schema, defaults |-> defaults]

\* options.beforeRegistration applied to a schema: the object it returns
\* (same tells whether it is the object it was given), and the shared
\* default options after the call
beforeRegistration(schema) ==
    IF options.beforeRegistration = "skip_inplace"
    THEN \* route.route_options.skip = true; return route
         [isObject |-> TRUE, same |-> TRUE,
          schema |-> IF schema.route_options.ref = "DEFAULT" THEN schema
                     ELSE [schema EXCEPT !.route_options.val.skip = TRUE],
          defaults |-> IF schema.route_options.ref = "DEFAULT"
                       THEN [defaults EXCEPT !.skip = TRUE] ELSE defaults]
    ELSE IF options.beforeRegistration = "edit_inplace"
    THEN \* route.base_path = "/my-new-path";
         \* route.route_options.environments = ["production"]; return route
         [isObject |-> TRUE, same |-> TRUE,
          schema |-> IF schema.route_options.ref = "DEFAULT"
                     THEN [schema EXCEPT !.base_path = MY_NEW_PATH]
                     ELSE [schema EXCEPT !.base_path = MY_NEW_PATH,
                                         !.route_options.val.environments =
                                              PRODUCTION_ONLY],
          defaults |-> IF schema.route_options.ref = "DEFAULT"
                       THEN [defaults EXCEPT !.environments = PRODUCTION_ONLY]
                       ELSE defaults]
    ELSE IF options.beforeRegistration = "skip_one"
    THEN \* if (route.absolute_path.endsWith("b.js")) route.route_options.skip = true;
         \* return route
         [isObject |-> TRUE, same |-> TRUE,
          schema |-> IF schema.absolute_path = P_b
                        /\ schema.route_options.ref # "DEFAULT"
                     THEN [schema EXCEPT !.route_options.val.skip = TRUE]
                     ELSE schema,
          defaults |-> IF schema.absolute_path = P_b
                          /\ schema.route_options.ref = "DEFAULT"
                       THEN [defaults EXCEPT !.skip = TRUE] ELSE defaults]
    ELSE IF options.beforeRegistration = "new_copy"
    THEN \* return { ...route }
         [isObject |-> TRUE, same |-> FALSE, schema |-> schema, defaults |-> defaults]
    ELSE IF options.beforeRegistration = "nonobject"
    THEN \* return null
         [isObject |-> FALSE, same |-> FALSE, schema |-> schema, defaults |-> defaults]
    ELSE \* (route) => route
         [isObject |-> TRUE, same |-> TRUE, schema |-> schema, defaults |-> defaults]

\* message of the error app.use throws when it rejects a null path
NULL_PATH_ERROR == <<"TypeError: path must be a string">>

\* assignMiddleware calls app.use(routeSchema.base_path, middleware) with
\* whatever base_path the schema has.  What the Express app does with a
\* null path is outside this code: the case at hand says whether it throws
\* or mounts the middleware.
appUseRejects(base_path) ==
    /\ base_path = NULL_PATH
    /\ urlCase.phase = "in"
    /\ urlCase.rejectsNull

\* a bug: the branch for an invalid hook result returns without writing
\* error and status on the schema
useRouteSchema_noErrorWritten(routerSchema, run, idx) ==
    LET hook == beforeRegistration(routerSchema)
        hookRouteSchema == hook.schema
        hookCall == [op |-> "hook", run |-> run, idx |-> idx, verdict |-> FALSE]
        \* the object append() pushed, as it ends up once status and message
        \* have been written to the object the hook returned
        appended(final) == IF hook.same THEN final ELSE routerSchema
        route_options ==
            IF hookRouteSchema.route_options.ref = "DEFAULT" THEN hook.defaults
            ELSE hookRouteSchema.route_options.val
        proceed == environmentBasedRegistration(hookRouteSchema.absolute_path,
                                                route_options,
                                                options.environmentRoutes)
        gateCall == [op |-> "gate", run |-> run, idx |-> idx, verdict |-> proceed]
    IN IF ~hook.isObject
       THEN Effect(<<routerSchema>>,
                   <<>>, hook.defaults, <<hookCall>>, NoText)
       ELSE IF route_options.skip
       THEN Effect(<<appended([hookRouteSchema EXCEPT !.status = "skipped",
                                                      !.message = SKIP_MESSAGE])>>,
                   <<>>, hook.defaults, <<hookCall>>, NoText)
       ELSE IF ~proceed
       THEN Effect(<<appended([hookRouteSchema EXCEPT !.status = "skipped",
                                                      !.message = SkippedFor(env)])>>,
                   <<>>, hook.defaults, <<hookCall, gateCall>>, NoText)
       ELSE IF options.customMiddleware = "throws"
       THEN \* assignMiddleware throws before status is written
            Effect(<<appended(hookRouteSchema)>>,
                   <<>>, hook.defaults, <<hookCall, gateCall>>, BIND_ERROR)
       ELSE IF appUseRejects(hookRouteSchema.base_path)
       THEN \* app.use throws before status is written
            Effect(<<appended(hookRouteSchema)>>,
                   <<>>, hook.defaults, <<hookCall, gateCall>>, NULL_PATH_ERROR)
       ELSE Effect(<<appended([hookRouteSchema EXCEPT !.status = "registered",
                                                      !.message = RegisteredFor(env)])>>,
                   <<[base_path |-> hookRouteSchema.base_path,
                      run |-> run, idx |-> idx]>>,
                   hook.defaults, <<hookCall, gateCall>>, NoText)

\* Engine.useRouteSchema
useRouteSchema(routerSchema, run, idx) ==
    LET hook == beforeRegistration(routerSchema)
        hookRouteSchema == hook.schema
        hookCall == [op |-> "hook", run |-> run, idx |-> idx, verdict |-> FALSE]
        \* the object append() pushed, as it ends up once status and message
        \* have been written to the object the hook returned
        appended(final) == IF hook.same THEN final ELSE routerSchema
        route_options ==
            IF hookRouteSchema.route_options.ref = "DEFAULT" THEN hook.defaults
            ELSE hookRouteSchema.route_options.val
        proceed == environmentBasedRegistration(hookRouteSchema.absolute_path,
                                                route_options,
                                                options.environmentRoutes)
        gateCall == [op |-> "gate", run |-> run, idx |-> idx, verdict |-> proceed]
    IN IF ~hook.isObject
       THEN Effect(<<[routerSchema EXCEPT !.error = HOOK_ERROR, !.status = "error"]>>,
                   <<>>, hook.defaults, <<hookCall>>, NoText)
       ELSE IF route_options.skip
       THEN Effect(<<appended([hookRouteSchema EXCEPT !.status = "skipped",
                                                      !.message = SKIP_MESSAGE])>>,
                   <<>>, hook.defaults, <<hookCall>>, NoText)
       ELSE IF ~proceed
       THEN Effect(<<appended([hookRouteSchema EXCEPT !.status = "skipped",
                                                      !.message = SkippedFor(env)])>>,
                   <<>>, hook.defaults, <<hookCall, gateCall>>, NoText)
       ELSE IF options.customMiddleware = "throws"
       THEN \* assignMiddleware throws before status is written
            Effect(<<appended(hookRouteSchema)>>,
                   <<>>, hook.defaults, <<hookCall, gateCall>>, BIND_ERROR)
       ELSE IF appUseRejects(hookRouteSchema.base_path)
       THEN \* app.use throws before status is written
            Effect(<<appended(hookRouteSchema)>>,
                   <<>>, hook.defaults, <<hookCall, gateCall>>, NULL_PATH_ERROR)
       ELSE Effect(<<appended([hookRouteSchema EXCEPT !.status = "registered",
                                                      !.message = RegisteredFor(env)])>>,
                   <<[base_path |-> hookRouteSchema.base_path,
                      run |-> run, idx |-> idx]>>,
                   hook.defaults, <<hookCall, gateCall>>, NoText)

NOT_A_FUNCTION == <<"The default export of a route must be a function.">>

\* Engine.requireHandler and the try block of Engine.registerRoute, from the
\* moment import() of the file node settles with module
tryRegisterHandler(module, node, run, idx, loadThrows) ==
    IF loadThrows
    THEN Effect(<<>>, <<>>, defaults, <<>>, LOAD_ERROR)
    ELSE IF ~module.isFunction
    THEN IF options.strictMode
         THEN Effect(<<>>, <<>>, defaults, <<>>, NOT_A_FUNCTION)
         ELSE Effect(<<[createRouteSchema(TRUE, <<>>, EmptyRouteOptions, node, run, idx)
                          EXCEPT !.status = "skipped",
                                 !.error = EMPTY_HANDLER_ERROR]>>,
                     <<>>, defaults, <<>>, NoText)
    ELSE useRouteSchema(createRouteSchema(FALSE, module.stack,
                                          getRouteOptions(module), node, run, idx),
                        run, idx)

\* a bug: the schema of an empty handler is passed to useRouteSchema like
\* any other, so the hook and the gate run and the route is bound
tryRegisterRoute_emptyToHook(run, idx, loadThrows) ==
    LET node == flattenTree[idx]
        module == Module(node.absolute_path)
    IN IF loadThrows
       THEN Effect(<<>>, <<>>, defaults, <<>>, LOAD_ERROR)
       ELSE IF ~module.isFunction
       THEN IF options.strictMode
            THEN Effect(<<>>, <<>>, defaults, <<>>, NOT_A_FUNCTION)
            ELSE useRouteSchema(
                     [createRouteSchema(TRUE, <<>>, EmptyRouteOptions, node, run, idx)
                         EXCEPT !.status = "skipped",
                                !.error = EMPTY_HANDLER_ERROR],
                     run, idx)
       ELSE useRouteSchema(createRouteSchema(FALSE, module.stack,
                                             getRouteOptions(module), node, run, idx),
                           run, idx)

\* the try block of Engine.registerRoute for the file at position idx
tryRegisterRoute(run, idx, loadThrows) ==
    tryRegisterHandler(Module(flattenTree[idx].absolute_path), flattenTree[idx],
                       run, idx, loadThrows)

\* the catch block of Engine.registerRoute applied to what the try block
\* did: in strict mode the promise rejects, otherwise an Error schema
\* carrying the message is appended
catchRegisterRoute(try, node, run, idx) ==
    IF try.thrown = NoText
    THEN [records |-> try.records, binds |-> try.binds, defaults |-> try.defaults,
          calls |-> try.calls, rejects |-> FALSE]
    ELSE IF options.strictMode
    THEN [records |-> try.records, binds |-> try.binds, defaults |-> try.defaults,
          calls |-> try.calls, rejects |-> TRUE]
    ELSE [records |-> try.records \o
                      <<[createRouteSchema(TRUE, <<>>, EmptyRouteOptions, node, run, idx)
                           EXCEPT !.status = "error", !.error = try.thrown]>>,
          binds |-> try.binds, defaults |-> try.defaults,
          calls |-> try.calls, rejects |-> FALSE]

\* a bug: the catch block rethrows whatever strictMode says, so one failing
\* file rejects the run
registerRoute_alwaysRethrow(run, idx, loadThrows) ==
    LET try == tryRegisterRoute(run, idx, loadThrows)
    IN [records |-> try.records, binds |-> try.binds, defaults |-> try.defaults,
        calls |-> try.calls, rejects |-> try.thrown # NoText]

\* Engine.registerRoute for the file at position idx
registerRoute(run, idx, loadThrows) ==
    catchRegisterRoute(tryRegisterRoute(run, idx, loadThrows), flattenTree[idx],
                       run, idx)

-----------------------------------------------------------------------------
(* Engine options *)

Chars_index_js == <<"i", "n", "d", "e", "x", ".", "j", "s">>

\* constants.ts DEFAULT_OPTIONS, the fields the engine reads
DEFAULT_OPTIONS ==
    [strictMode |-> FALSE,
     beforeRegistration |-> "identity",
     customMiddleware |-> "null",
     environmentRoutes |-> [isUndefined |-> TRUE, keys |-> <<>>],
     appMount |-> <<>>,
     indexNames |-> <<Chars_index_js>>]

Environments == {"development", "production"}

\* { production: ["d"] }
ProductionOnlyD ==
    [isUndefined |-> FALSE,
     keys |-> <<[env |-> "production", isArray |-> TRUE, dirs |-> << <<"d">> >>]>>]

\* the option objects callers pass to setOptions: the defaults, and the
\* defaults with strictMode, beforeRegistration, customMiddleware or
\* environmentRoutes replaced
OptionSet ==
    { DEFAULT_OPTIONS,
      [DEFAULT_OPTIONS EXCEPT !.environmentRoutes = ProductionOnlyD],
      [DEFAULT_OPTIONS EXCEPT !.strictMode = TRUE,
                              !.environmentRoutes = ProductionOnlyD],
      [DEFAULT_OPTIONS EXCEPT !.beforeRegistration = "skip_inplace"],
      [DEFAULT_OPTIONS EXCEPT !.beforeRegistration = "skip_one"],
      [DEFAULT_OPTIONS EXCEPT !.beforeRegistration = "new_copy",
                              !.environmentRoutes = ProductionOnlyD],
      [DEFAULT_OPTIONS EXCEPT !.beforeRegistration = "edit_inplace"],
      [DEFAULT_OPTIONS EXCEPT !.beforeRegistration = "nonobject"],
      [DEFAULT_OPTIONS EXCEPT !.customMiddleware = "throws"],
      [DEFAULT_OPTIONS EXCEPT !.strictMode = TRUE,
                              !.customMiddleware = "throws"] }

\* Engine.setOptions -> parseRouteRegistrationOptions: Object.assign of the
\* defaults and the (well-typed) argument
parseRouteRegistrationOptions(o) == o

-----------------------------------------------------------------------------
(* run() *)

\* a bug: slice(i) without an end, every remaining node is started at once
Chunk_noEnd(i) == {k \in 1..Len(flattenTree) : i <= k}

\* the nodes createSafePromises hands to createPromise for the chunk that
\* starts at index i (1-based): everything at once below the cap, else
\* flattenTree.slice(i, i + MAX_SAFE_PROMISES)
Chunk(i) ==
    IF Len(flattenTree) < MAX_SAFE_PROMISES THEN 1..Len(flattenTree)
    ELSE {k \in 1..Len(flattenTree) : i <= k /\ k < i + MAX_SAFE_PROMISES}

LastChunk(i) ==
    \/ Len(flattenTree) < MAX_SAFE_PROMISES
    \/ i + MAX_SAFE_PROMISES > Len(flattenTree)

NoGate == [phase |-> "none"]

NoUrl == [phase |-> "none"]

\* the engine after new RouteEngine(app, context)
Constructed ==
    /\ options = parseRouteRegistrationOptions(DEFAULT_OPTIONS)
    /\ env \in Environments
    /\ registry = <<>>
    /\ router = <<>>
    /\ defaults = DEFAULT_ROUTE_OPTIONS
    /\ pc = "idle"
    /\ runId = 0
    /\ chunkAt = 0
    /\ pending = {}
    /\ calls = <<>>
    /\ loadFailed = {}

\* a fresh engine on which run() is called once
Init ==
    /\ Constructed
    /\ budget = 1
    /\ gate = NoGate
    /\ urlCase = NoUrl

\* a fresh engine on which run() is called again after a run has ended
InitRerun ==
    /\ Constructed
    /\ budget = MaxRuns
    /\ gate = NoGate
    /\ urlCase = NoUrl

\* the caller, between two runs, as the test suites do: destroyAllRoutes(app),
\* engine.setOptions(o), then engine.run() up to its first await:
\* this.clear() and the call of createDirectoryTree
Run(o) ==
    /\ pc \in {"idle", "returned", "raised"}
    /\ budget > 0
    /\ budget' = budget - 1
    /\ router' = <<>>
    /\ options' = parseRouteRegistrationOptions(o)
    /\ registry' = <<>>
    /\ calls' = <<>>
    /\ loadFailed' = {}
    /\ runId' = runId + 1
    /\ chunkAt' = 0
    /\ pc' = "scanning"
    /\ UNCHANGED <<env, defaults, pending, gate, urlCase>>

\* createDirectoryTree resolves; run() flattens the tree and createSafePromises
\* calls registerRoute for every node of the first chunk
StartChunks ==
    /\ pc = "scanning"
    /\ chunkAt' = 1
    /\ pending' = pending \cup {[run |-> runId, idx |-> k] : k \in Chunk(1)}
    /\ pc' = "running"
    /\ UNCHANGED <<options, env, registry, router, defaults, runId, budget, calls,
                   loadFailed, gate, urlCase>>

\* the import() of one registerRoute call settles and the continuation of
\* registerRoute runs to its end; a rejection of a promise of the chunk
\* being awaited rejects Promise.all
Settle(p, loadThrows) ==
    /\ p \in pending
    /\ \E eff \in {registerRoute(p.run, p.idx, loadThrows)} :
          /\ registry' = registry \o eff.records
          /\ router' = router \o eff.binds
          /\ defaults' = eff.defaults
          /\ calls' = calls \o eff.calls
          /\ pc' = IF eff.rejects /\ p.run = runId /\ pc = "running"
                   THEN "rejected" ELSE pc
    /\ pending' = pending \ {p}
    /\ loadFailed' = IF loadThrows /\ p.run = runId
                     THEN loadFailed \cup {p.idx} ELSE loadFailed
    /\ UNCHANGED <<options, env, runId, budget, chunkAt, gate, urlCase>>

\* a bug: run() returns after the last chunk was started without awaiting
\* its Promise.all
AwaitChunk_noAwait ==
    /\ pc = "running"
    /\ IF LastChunk(chunkAt)
       THEN /\ pc' = "returned"
            /\ UNCHANGED <<chunkAt, pending>>
       ELSE /\ \A p \in pending : p.run # runId
            /\ chunkAt' = chunkAt + MAX_SAFE_PROMISES
            /\ pending' = pending \cup
                 {[run |-> runId, idx |-> k] : k \in Chunk(chunkAt + MAX_SAFE_PROMISES)}
            /\ pc' = "running"
    /\ UNCHANGED <<options, env, registry, router, defaults, runId, budget, calls,
                   loadFailed, gate, urlCase>>

\* Promise.all of the awaited chunk fulfils: the next chunk is started, or
\* after the last one run() saves and returns the registry
AwaitChunk ==
    /\ pc = "running"
    /\ \A p \in pending : p.run # runId
    /\ IF LastChunk(chunkAt)
       THEN /\ pc' = "returned"
            /\ UNCHANGED <<chunkAt, pending>>
       ELSE /\ chunkAt' = chunkAt + MAX_SAFE_PROMISES
            /\ pending' = pending \cup
                 {[run |-> runId, idx |-> k] : k \in Chunk(chunkAt + MAX_SAFE_PROMISES)}
            /\ pc' = "running"
    /\ UNCHANGED <<options, env, registry, router, defaults, runId, budget, calls,
                   loadFailed, gate, urlCase>>

\* the rejection reaches the catch block of run(), which rethrows it in
\* strict mode: run() raises to its caller
Raise ==
    /\ pc = "rejected"
    /\ pc' = "raised"
    /\ UNCHANGED <<options, env, registry, router, defaults, runId, budget,
                   chunkAt, pending, calls, loadFailed, gate, urlCase>>

Next ==
    \/ \E o \in OptionSet : Run(o)
    \/ StartChunks
    \/ \E p \in pending, loadThrows \in BOOLEAN : Settle(p, loadThrows)
    \/ AwaitChunk
    \/ Raise

Spec == Init /\ [][Next]_vars

SpecRerun == InitRerun /\ [][Next]_vars

\* one run() in which every continuation the runtime has queued is run: the
\* promise callbacks of createDirectoryTree and of Promise.all are
\* scheduled by the event loop once their promise has settled.  Nothing
\* makes an import() settle, so Settle carries no fairness condition.
SpecLive ==
    /\ Init
    /\ [][Next]_vars
    /\ WF_vars(StartChunks)
    /\ WF_vars(AwaitChunk)
    /\ WF_vars(Raise)

-----------------------------------------------------------------------------
(* The Environment Gate on its own: one evaluation, inputs drawn from sets *)

EnvKeyNames == {"development", "production", "test"}

\* directory lists of an environmentRoutes entry: relative and absolute
\* entries, the directory of d/b.js (d), and one that holds no file (x)
DirLists ==
    { << <<"d">> >>, << <<"x">> >>, << <<"x">>, <<"d">> >>, << P_d >> }

EnvEntries ==
    { [env |-> n, isArray |-> TRUE, dirs |-> d] : n \in EnvKeyNames, d \in DirLists }
    \cup { [env |-> n, isArray |-> FALSE, dirs |-> <<>>] : n \in EnvKeyNames }

\* the keys of an object are distinct
RECURSIVE KeySeqs(_)
KeySeqs(n) ==
    IF n = 0 THEN { <<>> }
    ELSE LET shorter == KeySeqs(n - 1)
         IN shorter \cup
            { Append(ks, e) : ks \in {q \in shorter : Len(q) = n - 1},
                              e \in EnvEntries }

DistinctKeys(ks) ==
    \A i, j \in 1..Len(ks) : i # j => ks[i].env # ks[j].env

EnvironmentRoutesSet ==
    { [isUndefined |-> TRUE, keys |-> <<>>] }
    \cup { [isUndefined |-> FALSE, keys |-> ks] :
             ks \in {q \in KeySeqs(MaxEnvKeys) : DistinctKeys(q)} }

EnvironmentsSet ==
    { [isArray |-> FALSE, items |-> <<>>],
      [isArray |-> TRUE, items |-> <<>>],
      [isArray |-> TRUE, items |-> <<"*">>],
      [isArray |-> TRUE, items |-> <<"development">>],
      [isArray |-> TRUE, items |-> <<"production">>],
      [isArray |-> TRUE, items |-> <<"test">>],
      [isArray |-> TRUE, items |-> <<"test", "*">>] }

\* <root>/d2/a.js: a file of the directory d2, beside the directory d
P_d2 == <<"/", "r", "/", "d", "2", "/", "a", ".", "j", "s">>

\* the schemas the gate is asked about: a.js at the root, d/b.js, d2/a.js
GateInputs ==
    { [phase |-> "in", absolute_path |-> p,
       route_options |-> [DEFAULT_ROUTE_OPTIONS EXCEPT !.environments = e],
       environmentRoutes |-> r, verdict |-> FALSE] :
        p \in {P_a, P_b, P_d2}, e \in EnvironmentsSet, r \in EnvironmentRoutesSet }

InitGate ==
    /\ Constructed
    /\ budget = 0
    /\ gate \in GateInputs
    /\ urlCase = NoUrl

\* useRouteSchema calls environmentBasedRegistration on the schema
GateEval ==
    /\ gate.phase = "in"
    /\ gate' = [gate EXCEPT
                  !.phase = "out",
                  !.verdict = environmentBasedRegistration(
                                 gate.absolute_path, gate.route_options,
                                 gate.environmentRoutes)]
    /\ UNCHANGED <<engineVars, urlCase>>

NextGate == GateEval

SpecGate == InitGate /\ [][NextGate]_vars

-----------------------------------------------------------------------------
(* Slug rewriting on its own: paramsReplacement applied to a route path,   *)
(* and then to its own result                                              *)

\* the characters route paths are drawn from: the separator, the slug
\* brackets and two letters
UrlChars == {"/", "[", "]", "a", "b"}

UrlSet == UNION { [1..n -> UrlChars] : n \in 0..MaxUrlLen }

\* a constraint pattern without brackets, and one with a bracket expression
PlainPattern == <<"x", "+">>
BracketPattern == <<"[", "b", "]">>

\* the paramsRegex objects of routeOptions: no entry, one entry, two entries
ParamsRegexSet ==
    { <<>>,
      << [name |-> <<"a">>, regex |-> PlainPattern] >>,
      << [name |-> <<"b">>, regex |-> PlainPattern] >>,
      << [name |-> <<"a">>, regex |-> BracketPattern] >>,
      << [name |-> <<"a">>, regex |-> PlainPattern],
         [name |-> <<"b">>, regex |-> PlainPattern] >>,
      << [name |-> <<"a">>, regex |-> BracketPattern],
         [name |-> <<"b">>, regex |-> PlainPattern] >> }

SlugInputs ==
    { [phase |-> "in", path |-> u,
       paramsRegex |-> [isUndefined |-> FALSE, entries |-> c],
       once |-> <<>>, twice |-> <<>>] :
        u \in UrlSet, c \in ParamsRegexSet }

InitSlug ==
    /\ Constructed
    /\ budget = 0
    /\ gate = NoGate
    /\ urlCase \in SlugInputs

\* createRouteUrl calls paramsReplacement on the route path
SlugRewrite ==
    /\ urlCase.phase = "in"
    /\ urlCase' = [urlCase EXCEPT
                     !.phase = "once",
                     !.once = paramsReplacement(urlCase.path, urlCase.paramsRegex)]
    /\ UNCHANGED gateVars

\* paramsReplacement applied to the path it returned
SlugRewriteAgain ==
    /\ urlCase.phase = "once"
    /\ urlCase' = [urlCase EXCEPT
                     !.phase = "twice",
                     !.twice = paramsReplacement(urlCase.once, urlCase.paramsRegex)]
    /\ UNCHANGED gateVars

NextSlug == SlugRewrite \/ SlugRewriteAgain

SpecSlug == InitSlug /\ [][NextSlug]_vars

-----------------------------------------------------------------------------
(* Route URL derivation on its own: createRouteUrl applied to one file *)

\* names of directories and files (without extension): plain names, a name
\* that begins with another one, the mount's name and the index name
NameSet == { <<"a">>, <<"a", "b">>, <<"m">>, <<"i", "n", "d", "e", "x">> }

DirSeqs == UNION { [1..n -> NameSet] : n \in 0..MaxDirs }

\* "/d1/d2" for the directories <<d1, d2>>
RECURSIVE JoinSegments(_)
JoinSegments(dirs) ==
    IF Len(dirs) = 0 THEN <<>>
    ELSE <<"/">> \o Head(dirs) \o JoinSegments(Tail(dirs))

\* the absolute_path the tree gives the file name.js in the directories dirs
\* under the scanned root
FilePath(dirs, name) ==
    currentDirectory \o JoinSegments(dirs) \o <<"/">> \o name \o <<".", "j", "s">>

\* options.appMount: the default "", and a mount without and with its slash
AppMountSet == { <<>>, <<"m">>, <<"/", "m">> }

\* options.indexNames: the default, and a second index name
IndexNamesSet == { <<Chars_index_js>>, <<Chars_index_js, <<"a", ".", "j", "s">> >> }

\* routeOptions.isIndex: null (unset), true, false
IsIndexSet == {"null", "true", "false"}

UrlInputs ==
    { [phase |-> "in", dirs |-> d, name |-> n,
       absolute_path |-> FilePath(d, n),
       routeOptions |-> [DEFAULT_ROUTE_OPTIONS EXCEPT !.isIndex = x],
       opts |-> [DEFAULT_OPTIONS EXCEPT !.appMount = m, !.indexNames = i],
       basePath |-> <<>>] :
        d \in DirSeqs, n \in NameSet, x \in IsIndexSet,
        m \in AppMountSet, i \in IndexNamesSet }

InitUrl ==
    /\ Constructed
    /\ budget = 0
    /\ gate = NoGate
    /\ urlCase \in UrlInputs

\* createRouteSchema calls createRouteUrl for the handler of the file
UrlDerive ==
    /\ urlCase.phase = "in"
    /\ urlCase' = [urlCase EXCEPT
                     !.phase = "out",
                     !.basePath = createRouteUrl(urlCase.routeOptions,
                                                 urlCase.absolute_path,
                                                 urlCase.opts)]
    /\ UNCHANGED gateVars

NextUrl == UrlDerive

SpecUrl == InitUrl /\ [][NextUrl]_vars

-----------------------------------------------------------------------------
(* Layers of one handler: createRouteSchema on a loaded router *)

\* method layers of a router drawn for schema building
MaxLayers == 2

\* handler functions registered on one method layer
MaxMiddleware == 2

\* <root>/index.js, whose route path is the root "/"
P_index == currentDirectory \o <<"/">> \o <<"i", "n", "d", "e", "x", ".", "j", "s">>

\* route.path of a method layer: router.get("/") and router.get("/x")
LayerPathSet == { <<"/">>, <<"/", "x">> }

\* a layer of the router's stack: layerMethod() is the first key of
\* route.methods, "unknown" for router.route(path) without a handler
ExpressLayer ==
    { [method |-> IF n = 0 THEN "unknown" ELSE "get",
       path |-> p, middleware_count |-> n] :
        p \in LayerPathSet, n \in 0..MaxMiddleware }

StackSet == UNION { [1..n -> ExpressLayer] : n \in 0..MaxLayers }

\* options.interceptLayerStack: null, a hook returning the handle it was
\* given, one returning a new function, one returning undefined, and one
\* that writes to the layer object it was given and returns undefined
InterceptSet == {"null", "same", "wrap", "nothing", "mutate"}

HACKED_PATH == <<"/", "h">>

\* the layer object the hook was handed, as the hook leaves it
hookLayer(hook, layer) ==
    IF hook = "mutate" THEN [layer EXCEPT !.complete_path = HACKED_PATH] ELSE layer

\* the value the hook returns for the handle it was given
hookReturn(hook) ==
    IF hook = "same" THEN "original"
    ELSE IF hook = "wrap" THEN "wrapped"
    ELSE "undefined"

\* createRouteSchema, for (const [index, middleware] of stack.entries()):
\* the invocations of the hook for the middleware index.. of layer k, each
\* on Object.assign({}, routerLayer), a copy of the layer
RECURSIVE interceptStack(_, _, _, _)
interceptStack(hook, layer, k, index) ==
    IF index >= layer.middleware_count THEN <<>>
    ELSE <<[layer |-> k,
            received |-> hookLayer(hook, layer),
            index |-> index,
            stackSize |-> layer.middleware_count,
            returned |-> hookReturn(hook)]>>
         \o interceptStack(hook, layer, k, index + 1)

\* createRouteSchema, for (const layer of routeHandler.stack): the hook
\* invocations of the layers k.., none when the option is null
RECURSIVE interceptLayerStack(_, _, _)
interceptLayerStack(hook, layers, k) ==
    IF hook = "null" \/ k > Len(layers) THEN <<>>
    ELSE interceptStack(hook, layers[k], k, 0)
         \o interceptLayerStack(hook, layers, k + 1)

\* stack[index].handle of every layer after the loop: replaced when the
\* hook returned a function
handlesAfter(hook, layers) ==
    [k \in 1..Len(layers) |->
        [i \in 1..layers[k].middleware_count |->
            IF hook # "null" /\ hookReturn(hook) # "undefined"
            THEN hookReturn(hook) ELSE "original"]]

\* the handler of a file without routeOptions whose router has the stack
LayerInputs ==
    { [phase |-> "in", absolute_path |-> f, stack |-> s,
       interceptLayerStack |-> h,
       schema |-> <<>>, intercepts |-> <<>>, handles |-> <<>>] :
        f \in {P_a, P_index}, s \in StackSet, h \in InterceptSet }

InitLayer ==
    /\ Constructed
    /\ budget = 0
    /\ gate = NoGate
    /\ urlCase \in LayerInputs

\* registerRoute calls createRouteSchema on the loaded handler
LayerDerive ==
    /\ urlCase.phase = "in"
    /\ \E schema \in { createRouteSchema(
                          FALSE, urlCase.stack,
                          getRouteOptions([routeOptions |-> NoRawOptions]),
                          [absolute_path |-> urlCase.absolute_path], 0, 0) } :
          urlCase' = [urlCase EXCEPT
                        !.phase = "out",
                        !.schema = schema,
                        !.intercepts = interceptLayerStack(
                                          urlCase.interceptLayerStack,
                                          schema.layers, 1),
                        !.handles = handlesAfter(urlCase.interceptLayerStack,
                                                 schema.layers)]
    /\ UNCHANGED gateVars

NextLayer == LayerDerive

SpecLayer == InitLayer /\ [][NextLayer]_vars

-----------------------------------------------------------------------------
(* Output files: RouteEngine.save and the redaction function *)

\* records of a registry drawn for saving
MaxRecords == 2

REDACT_TOKEN == <<".", ".", ".">>

\* initRedactFn(redact, "router-registry"): the registry itself when redact
\* is false, otherwise a new array of copies { ...entry, absolute_path }
redactRegistry(redact, json) ==
    IF ~redact THEN json
    ELSE [k \in 1..Len(json) |-> [json[k] EXCEPT !.absolute_path = REDACT_TOKEN]]

\* initRedactFn(redact, "tree-node"): the node itself when redact is false,
\* otherwise a copy { ...node, absolute_path } whose children array, when
\* the node has one, holds the redacted children
RECURSIVE redactTreeNode(_, _)
redactTreeNode(redact, json) ==
    IF ~redact THEN json
    ELSE [json EXCEPT
            !.absolute_path = REDACT_TOKEN,
            !.children = IF json.type = "directory"
                         THEN [k \in 1..Len(json.children) |->
                                  redactTreeNode(redact, json.children[k])]
                         ELSE @]

\* a bug: the entries of the registry are redacted in place, so the
\* registry the engine holds loses its paths too
save_inPlace(opts, tree, engineRegistry) ==
    IF ~opts.outputIsString \/ Len(engineRegistry) = 0
    THEN [written |-> FALSE,
          tree_node_json |-> <<>>,
          route_registry_json |-> <<>>,
          registry |-> engineRegistry]
    ELSE [written |-> TRUE,
          tree_node_json |-> redactTreeNode(opts.redactOutputFilePaths, tree),
          route_registry_json |->
              redactRegistry(opts.redactOutputFilePaths, engineRegistry),
          registry |-> redactRegistry(opts.redactOutputFilePaths, engineRegistry)]

\* RouteEngine.save: the content of the two files LocalFileSave writes, and
\* the engine's registry afterwards; nothing is written when output is not
\* a string or the registry is empty
save(opts, tree, engineRegistry) ==
    IF ~opts.outputIsString \/ Len(engineRegistry) = 0
    THEN [written |-> FALSE,
          tree_node_json |-> <<>>,
          route_registry_json |-> <<>>,
          registry |-> engineRegistry]
    ELSE [written |-> TRUE,
          tree_node_json |-> redactTreeNode(opts.redactOutputFilePaths, tree),
          route_registry_json |->
              redactRegistry(opts.redactOutputFilePaths, engineRegistry),
          registry |-> engineRegistry]

\* options.output (a directory name or false) and redactOutputFilePaths
SaveOptionSet == [outputIsString : BOOLEAN, redactOutputFilePaths : BOOLEAN]

\* trees createDirectoryTree returns: the scanned directory of the model,
\* a directory with one file, an empty directory
SaveTreeSet ==
    { TreeNode,
      Directory(currentDirectory, << File(P_a) >>),
      Directory(currentDirectory, <<>>) }

\* records registerRoute appends: registered, skipped and error records of
\* the files a.js and d/b.js
SaveRecordSet ==
    { [createRouteSchema(FALSE, GetRoot, getRouteOptions(Module(f)),
                         [absolute_path |-> f], 1, 1)
          EXCEPT !.status = s] :
        f \in {P_a, P_b}, s \in {"registered", "skipped"} }
    \cup
    { [createRouteSchema(TRUE, <<>>, getRouteOptions(Module(f)),
                         [absolute_path |-> f], 1, 1)
          EXCEPT !.status = "error", !.error = LOAD_ERROR] :
        f \in {P_a, P_b} }

SaveRegistrySet == UNION { [1..n -> SaveRecordSet] : n \in 0..MaxRecords }

SaveInputs ==
    { [phase |-> "in", opts |-> o, tree |-> t, registry |-> r,
       saved |-> <<>>] :
        o \in SaveOptionSet, t \in SaveTreeSet, r \in SaveRegistrySet }

InitSave ==
    /\ Constructed
    /\ budget = 0
    /\ gate = NoGate
    /\ urlCase \in SaveInputs

\* run() calls save(treeNode) before it returns the registry
Save ==
    /\ urlCase.phase = "in"
    /\ urlCase' = [urlCase EXCEPT
                     !.phase = "out",
                     !.saved = save(urlCase.opts, urlCase.tree, urlCase.registry)]
    /\ UNCHANGED gateVars

NextSave == Save

SpecSave == InitSave /\ [][NextSave]_vars

-----------------------------------------------------------------------------
(* Per-file options: getRouteOptions on the routeOptions a file exports *)

\* routeOptions.environments as exported: absent, null, a string, arrays
\* of zero, one and two names, a number
RawEnvironmentsSet ==
    { [kind |-> "undefined", items |-> <<>>],
      [kind |-> "null", items |-> <<>>],
      [kind |-> "number", items |-> <<>>],
      [kind |-> "string", items |-> <<"production">>],
      [kind |-> "array", items |-> <<>>],
      [kind |-> "array", items |-> <<"production">>],
      [kind |-> "array", items |-> <<"development", "production">>] }

\* routeOptions.isIndex as exported: null, true, false and the string "yes"
RawIsIndexSet == {"null", "true", "false", "yes"}

\* routeOptions.paramsRegex as exported: absent or not an object, {}, and
\* objects whose values are a string, a RegExp, a number
RawParamsRegexSet ==
    { [isObject |-> FALSE, entries |-> <<>>],
      [isObject |-> TRUE, entries |-> <<>>],
      [isObject |-> TRUE,
       entries |-> << [name |-> <<"a">>, kind |-> "string", regex |-> <<"x", "+">>] >>],
      [isObject |-> TRUE,
       entries |-> << [name |-> <<"a">>, kind |-> "RegExp", regex |-> <<"x", "+">>] >>],
      [isObject |-> TRUE,
       entries |-> << [name |-> <<"a">>, kind |-> "number", regex |-> <<"7">>] >>],
      [isObject |-> TRUE,
       entries |-> << [name |-> <<"a">>, kind |-> "number", regex |-> <<"7">>],
                      [name |-> <<"b">>, kind |-> "RegExp", regex |-> <<"x", "+">>] >>] }

\* routeOptions.metadata as exported: absent, a number, {}, an object
RawMetadataSet == {"undefined", "7", "{}", "{k}"}

\* the routeOptions export of a file: none (or null, or a number), or an
\* object with these fields
RawOptionsSet ==
    { NoRawOptions }
    \cup
    { [isObject |-> TRUE, environments |-> e, skip |-> s, isIndex |-> x,
       paramsRegex |-> p, metadata |-> m] :
        e \in RawEnvironmentsSet, s \in BOOLEAN, x \in RawIsIndexSet,
        p \in RawParamsRegexSet, m \in RawMetadataSet }

OptionsInputs ==
    { [phase |-> "in", raw |-> r, resolved |-> <<>>] : r \in RawOptionsSet }

InitOptions ==
    /\ Constructed
    /\ budget = 0
    /\ gate = NoGate
    /\ urlCase \in OptionsInputs

\* requireHandler: handler.routeOptions = getRouteOptions(handler)
ResolveOptions ==
    /\ urlCase.phase = "in"
    /\ urlCase' = [urlCase EXCEPT
                     !.phase = "out",
                     !.resolved = getRouteOptions([routeOptions |-> urlCase.raw])]
    /\ UNCHANGED gateVars

NextOptions == ResolveOptions

SpecOptions == InitOptions /\ [][NextOptions]_vars

-----------------------------------------------------------------------------
(* The scanned directory: setOptions and run() on a directory that may be
   missing *)

\* options.directory resolved: the directory of the model, which exists,
\* and one that does not
MISSING_DIRECTORY == <<"/", "x">>

DirectorySet == {currentDirectory, MISSING_DIRECTORY}

\* fs.existsSync / fs.readdirSync succeeding on the directory
existsSync(directory) == directory = currentDirectory

NoDirectoryCase(d) == [phase |-> "constructed", directory |-> d]

InitDirectory ==
    /\ Constructed
    /\ budget = 1
    /\ gate = NoGate
    /\ urlCase \in { NoDirectoryCase(d) : d \in DirectorySet }

\* setOptions and run() on the existing directory
RunExisting(o) ==
    /\ existsSync(urlCase.directory)
    /\ Run(o)

\* createDirectoryTree resolves for the existing directory
ScanExisting ==
    /\ existsSync(urlCase.directory)
    /\ StartChunks

\* Engine.setOptions with a directory that does not exist: the options and
\* $currentDirectory are assigned, then strict mode throws
setOptionsMissing(o) ==
    /\ ~existsSync(urlCase.directory)
    /\ urlCase.phase = "constructed"
    /\ pc = "idle"
    /\ options' = parseRouteRegistrationOptions(o)
    /\ urlCase' = [urlCase EXCEPT
                     !.phase = IF o.strictMode THEN "setOptions raised"
                               ELSE "configured"]
    /\ UNCHANGED <<env, registry, router, defaults, pc, runId, budget, chunkAt,
                   pending, calls, loadFailed, gate>>

\* run() on the missing directory up to its first await: this.clear() and
\* the call of createDirectoryTree
RunMissing ==
    /\ ~existsSync(urlCase.directory)
    /\ urlCase.phase \in {"configured", "setOptions raised"}
    /\ pc = "idle"
    /\ budget > 0
    /\ budget' = budget - 1
    /\ registry' = <<>>
    /\ calls' = <<>>
    /\ loadFailed' = {}
    /\ runId' = runId + 1
    /\ chunkAt' = 0
    /\ pc' = "scanning"
    /\ UNCHANGED <<options, env, router, defaults, pending, gate, urlCase>>

\* fs.readdirSync throws in createDirectoryTree and the catch block of run()
\* takes the error: rethrown in strict mode, otherwise dropped, and run()
\* ends without a return statement, so its promise fulfils with undefined
ScanMissing ==
    /\ ~existsSync(urlCase.directory)
    /\ pc = "scanning"
    /\ pc' = IF options.strictMode THEN "rejected" ELSE "returned undefined"
    /\ UNCHANGED <<options, env, registry, router, defaults, runId, budget,
                   chunkAt, pending, calls, loadFailed, gate, urlCase>>

NextDirectory ==
    \/ \E o \in OptionSet : RunExisting(o)
    \/ ScanExisting
    \/ \E o \in OptionSet : setOptionsMissing(o)
    \/ RunMissing
    \/ ScanMissing
    \/ \E p \in pending, loadThrows \in BOOLEAN : Settle(p, loadThrows)
    \/ AwaitChunk
    \/ Raise

SpecDirectory == InitDirectory /\ [][NextDirectory]_vars

-----------------------------------------------------------------------------
(* One loaded handler: registerRoute on a file whose import() resolved *)

\* a router with the two method layers GET / and GET /x
GetTwo ==
    <<[method |-> "get", path |-> <<"/">>, middleware_count |-> 1],
      [method |-> "get", path |-> <<"/", "x">>, middleware_count |-> 1]>>

\* what the file exports: a function as default export (a router with two
\* layers, with one, with none, or a plain function, which has no stack)
\* and no routeOptions, or routeOptions declaring skip or environments
HandlerSet ==
    { [isFunction |-> TRUE, routeOptions |-> r, stack |-> s] :
        r \in { NoRawOptions,
                [NoRawOptions EXCEPT !.isObject = TRUE, !.skip = TRUE],
                [NoRawOptions EXCEPT
                    !.isObject = TRUE,
                    !.environments = [kind |-> "array", items |-> <<"production">>]] },
        s \in { <<>>, GetRoot, GetTwo } }

HandlerInputs ==
    { [phase |-> "in", module |-> m, node |-> File(P_a), rejectsNull |-> b,
       effect |-> <<>>] :
        m \in HandlerSet, b \in BOOLEAN }

\* an engine after setOptions(o), about to register one file
InitHandler ==
    /\ options \in { parseRouteRegistrationOptions(o) : o \in OptionSet }
    /\ env \in Environments
    /\ registry = <<>>
    /\ router = <<>>
    /\ defaults = DEFAULT_ROUTE_OPTIONS
    /\ pc = "idle"
    /\ runId = 1
    /\ chunkAt = 0
    /\ pending = {}
    /\ calls = <<>>
    /\ loadFailed = {}
    /\ budget = 0
    /\ gate = NoGate
    /\ urlCase \in HandlerInputs

\* Engine.registerRoute(node) from the moment import() resolved with the
\* module: the records appended, the app.use calls made, the hook and gate
\* invocations, and the shared default options afterwards
RegisterHandler ==
    /\ urlCase.phase = "in"
    /\ \E eff \in { catchRegisterRoute(
                       tryRegisterHandler(urlCase.module, urlCase.node, 1, 1, FALSE),
                       urlCase.node, 1, 1) } :
          /\ registry' = registry \o eff.records
          /\ router' = router \o eff.binds
          /\ defaults' = eff.defaults
          /\ calls' = calls \o eff.calls
          /\ urlCase' = [urlCase EXCEPT !.phase = "out", !.effect = eff]
    /\ UNCHANGED <<options, env, pc, runId, budget, chunkAt, pending, loadFailed,
                   gate>>

NextHandler == RegisterHandler

SpecHandler == InitHandler /\ [][NextHandler]_vars

-----------------------------------------------------------------------------
(* Claims about the Environment Gate (checked under SpecGate) *)

\* the directories of environmentRoutes that contain the file, as a set of
\* environment names: key n has an array that lists a directory whose
\* resolved path the file's absolute path starts with
MatchingEnvs(g) ==
    IF g.environmentRoutes.isUndefined THEN {}
    ELSE { g.environmentRoutes.keys[k].env :
             k \in { i \in 1..Len(g.environmentRoutes.keys) :
                       /\ g.environmentRoutes.keys[i].isArray
                       /\ \E j \in 1..Len(g.environmentRoutes.keys[i].dirs) :
                            StartsWith(g.absolute_path,
                                       resolveFilePath(g.environmentRoutes.keys[i].dirs[j])) } }

ItemsOf(environments) ==
    { environments.items[k] : k \in 1..Len(environments.items) }

\* C1: when the file's resolved options carry an explicit environments
\* array, the gate's verdict is true exactly when the array contains "*" or
\* the current environment, whatever environmentRoutes holds.
C1_PerFilePrecedence ==
    (gate.phase = "out" /\ gate.route_options.environments.isArray)
        => (gate.verdict <=>
              (WILD_CARD_TOKEN \in ItemsOf(gate.route_options.environments)
               \/ env \in ItemsOf(gate.route_options.environments)))

\* C1 witness: the per-file array names the current environment, the map
\* lists the file's directory under another environment only, and the gate
\* has answered true.
C1_Witness ==
    /\ gate.phase = "out"
    /\ gate.route_options.environments.isArray
    /\ env \in ItemsOf(gate.route_options.environments)
    /\ MatchingEnvs(gate) # {}
    /\ env \notin MatchingEnvs(gate)
    /\ gate.verdict

\* C2: when the file's environments is unset, the gate's verdict is true if
\* no directory of environmentRoutes matches the file or if some matching
\* directory is listed under the current environment, and false otherwise;
\* the verdict is a function of the set of matching keys, not of their order.
C2_DirectoryMap ==
    (gate.phase = "out" /\ ~gate.route_options.environments.isArray)
        => (gate.verdict <=>
              (MatchingEnvs(gate) = {} \/ env \in MatchingEnvs(gate)))

\* C2 witness: the file's directory is listed under the current environment
\* by the first key and under another environment by a later key, and the
\* verdict is true.
C2_Witness ==
    /\ gate.phase = "out"
    /\ ~gate.route_options.environments.isArray
    /\ ~gate.environmentRoutes.isUndefined
    /\ Len(gate.environmentRoutes.keys) >= 2
    /\ gate.environmentRoutes.keys[1].env = env
    /\ Cardinality(MatchingEnvs(gate)) >= 2
    /\ gate.verdict

-----------------------------------------------------------------------------
(* Claims about a run (Spec: one run; SpecRerun: a run after another) *)

\* the records of the latest run for position idx of flattenTree, in
\* registry order, and the app.use calls made for it
RecordsOf(idx) ==
    SelectSeq(registry, LAMBDA r : r.idx = idx /\ r.run = runId)

BindsOf(idx) ==
    SelectSeq(router, LAMBDA b : b.idx = idx /\ b.run = runId)

Positions == 1..Len(flattenTree)

\* the part of a record the claims compare: status, basePath and layers
ViewOf(records) ==
    [k \in 1..Len(records) |->
        [status |-> records[k].status, base_path |-> records[k].base_path,
         layers |-> records[k].layers]]

\* the number of the chunk that position idx belongs to
ChunkOf(idx) ==
    IF Len(flattenTree) < MAX_SAFE_PROMISES THEN 0
    ELSE (idx - 1) \div MAX_SAFE_PROMISES

\* C3 (as claimed): after a completed non-strict run the registry holds
\* exactly one record for every discovered file, whatever the load outcome,
\* the hook result and the outcome of binding.
C3_OneRecordPerFile ==
    (pc = "returned" /\ ~options.strictMode)
        => \A idx \in Positions :
              Cardinality({k \in 1..Len(registry) :
                  registry[k].absolute_path = flattenTree[idx].absolute_path}) = 1

\* C4: in non-strict mode a failing load never rejects the run; when the
\* run has returned, a file whose load threw has exactly one record, with
\* status Error and the thrown message, and no binding, and every other
\* file has the records (status, basePath, layers) and the bindings that
\* registering it on its own produces.  The comparison is computed in the
\* state the run ended in, so it is made where the shared default options
\* are what they were when the file was registered; a hook that writes
\* them for one file only is the case of C29 and involves no failing load.
C4_FailureIsolation ==
    ~options.strictMode =>
        /\ pc \notin {"rejected", "raised"}
        /\ pc = "returned" =>
             \A idx \in Positions :
                IF idx \in loadFailed
                THEN /\ Len(RecordsOf(idx)) = 1
                     /\ RecordsOf(idx)[1].status = "error"
                     /\ RecordsOf(idx)[1].error = LOAD_ERROR
                     /\ BindsOf(idx) = <<>>
                ELSE (options.beforeRegistration = "skip_one"
                         => defaults = DEFAULT_ROUTE_OPTIONS)
                     => /\ ViewOf(RecordsOf(idx))
                             = ViewOf(registerRoute(runId, idx, FALSE).records)
                        /\ BindsOf(idx) = registerRoute(runId, idx, FALSE).binds

\* C4 witness: a non-strict run has returned in which the first file's load
\* threw, a later file's load threw too, and a file between them is
\* registered and bound.
C4_Witness ==
    /\ pc = "returned"
    /\ ~options.strictMode
    /\ {1, 3} \subseteq loadFailed
    /\ 2 \notin loadFailed
    /\ Len(RecordsOf(2)) = 1
    /\ RecordsOf(2)[1].status = "registered"
    /\ Len(BindsOf(2)) = 1

\* C5 (as claimed): once run() has raised in strict mode, no record is
\* appended to the registry and no route is bound any more.
C5_NothingAfterRaise ==
    [][(pc = "raised" /\ pc' = "raised")
          => (registry' = registry /\ router' = router)]_vars

\* C6 (as claimed): when a run has returned, the records of the registry
\* are in discovery order, the order of flattenTree.
C6_DiscoveryOrder ==
    pc = "returned"
        => \A i, j \in 1..Len(registry) :
              i < j => registry[i].idx <= registry[j].idx

\* C7: the loads of a run that are in flight are at most
\* MAX_SAFE_PROMISES and all belong to the chunk being awaited; no file of
\* a later chunk has a load in flight or a record yet; and in the registry
\* every record of a chunk precedes every record of the chunks after it.
C7_LoadBatching ==
    LET inFlight == {p \in pending : p.run = runId}
    IN /\ Cardinality(inFlight) <= MAX_SAFE_PROMISES
       /\ \A p \in inFlight : p.idx \in Chunk(chunkAt)
       /\ \A p \in inFlight : \A k \in 1..Len(registry) :
             registry[k].run = runId => ChunkOf(registry[k].idx) <= ChunkOf(p.idx)
       /\ \A i, j \in 1..Len(registry) :
             (i < j /\ registry[i].run = runId /\ registry[j].run = runId)
                => ChunkOf(registry[i].idx) <= ChunkOf(registry[j].idx)

\* C7 witness: the second chunk is being awaited with one of its loads in
\* flight, after the first chunk left MAX_SAFE_PROMISES records.
C7_Witness ==
    /\ pc = "running"
    /\ chunkAt > 1
    /\ \E p \in pending : p.run = runId /\ ChunkOf(p.idx) = 1
    /\ Cardinality({k \in 1..Len(registry) : ChunkOf(registry[k].idx) = 0})
          >= MAX_SAFE_PROMISES
    /\ \E k \in 1..Len(registry) : ChunkOf(registry[k].idx) = 1

\* C8 (as claimed): whenever a run has ended, by returning or by raising,
\* the registry holds only records produced by that run.
C8_OnlyThisRun ==
    pc \in {"returned", "raised"}
        => \A k \in 1..Len(registry) : registry[k].run = runId

\* the files whose handler loaded and whose options have skip = true when
\* the hook has returned: declared by the module, or written by the hook
SkipFlagged ==
    {idx \in Positions :
        /\ \E k \in 1..Len(calls) : calls[k].op = "hook" /\ calls[k].idx = idx
                                    /\ calls[k].run = runId
        /\ options.beforeRegistration # "nonobject"
        /\ \/ Module(flattenTree[idx].absolute_path).routeOptions.skip
           \/ options.beforeRegistration = "skip_inplace"}

\* C9 (as claimed): when a run has returned, every loaded handler whose
\* options have skip = true has one record, with status Skipped and the
\* fixed skip message; the gate was not evaluated for it and it is not bound.
C9_SkipFlag ==
    pc = "returned" =>
        \A idx \in SkipFlagged :
            /\ Len(RecordsOf(idx)) = 1
            /\ RecordsOf(idx)[1].status = "skipped"
            /\ RecordsOf(idx)[1].message = SKIP_MESSAGE
            /\ ~\E k \in 1..Len(calls) : calls[k].op = "gate" /\ calls[k].idx = idx
            /\ BindsOf(idx) = <<>>

\* C10 (as claimed): when a run has returned, a file is bound exactly once,
\* at its record's basePath, if its record is Registered and never
\* otherwise; and a file for which the gate was evaluated has a Registered
\* record if the verdict was true and a record Skipped for the current
\* environment if it was false.
C10_BindingMatchesStatus ==
    pc = "returned" =>
        \A idx \in Positions :
            /\ IF \E k \in 1..Len(RecordsOf(idx)) : RecordsOf(idx)[k].status = "registered"
               THEN /\ Len(BindsOf(idx)) = 1
                    /\ \E k \in 1..Len(RecordsOf(idx)) :
                          /\ RecordsOf(idx)[k].status = "registered"
                          /\ RecordsOf(idx)[k].base_path = BindsOf(idx)[1].base_path
               ELSE BindsOf(idx) = <<>>
            /\ \A c \in 1..Len(calls) :
                  (calls[c].op = "gate" /\ calls[c].idx = idx) =>
                     /\ Len(RecordsOf(idx)) = 1
                     /\ IF calls[c].verdict
                        THEN RecordsOf(idx)[1].status = "registered"
                        ELSE /\ RecordsOf(idx)[1].status = "skipped"
                             /\ RecordsOf(idx)[1].message = SkippedFor(env)

-----------------------------------------------------------------------------
(* The beforeRegistration hook *)

\* the hook invocations and the gate evaluations of the current run for the
\* file at position idx, as indices into calls
HookCalls(idx) ==
    {k \in 1..Len(calls) : calls[k].op = "hook" /\ calls[k].idx = idx
                           /\ calls[k].run = runId}

GateCalls(idx) ==
    {k \in 1..Len(calls) : calls[k].op = "gate" /\ calls[k].idx = idx
                           /\ calls[k].run = runId}

\* C11: when the hook returns a non-object, every file it was invoked for
\* has one record, with status Error and a non-empty error; the gate is not
\* evaluated for it, a skip flag it declares does not make it Skipped, it is
\* not bound, and the run goes on to return with a record for every file.
C11_HookFailure ==
    options.beforeRegistration = "nonobject" =>
        /\ pc \notin {"rejected", "raised"}
        /\ \A idx \in Positions :
              HookCalls(idx) # {} =>
                 /\ Len(RecordsOf(idx)) = 1
                 /\ RecordsOf(idx)[1].status = "error"
                 /\ RecordsOf(idx)[1].error # NoText
                 /\ GateCalls(idx) = {}
                 /\ BindsOf(idx) = <<>>
        /\ pc = "returned" => \A idx \in Positions : Len(RecordsOf(idx)) = 1

\* C11 witness: a run with the non-object hook has returned; the file that
\* declares skip and a file after it were handed to the hook.
C11_Witness ==
    /\ pc = "returned"
    /\ options.beforeRegistration = "nonobject"
    /\ HookCalls(3) # {}
    /\ Module(flattenTree[3].absolute_path).routeOptions.skip
    /\ RecordsOf(3)[1].status = "error"
    /\ Len(RecordsOf(4)) = 1

\* the files of flattenTree whose load yielded a usable handler in this run
UsableHandler(idx) ==
    /\ idx \notin loadFailed
    /\ Module(flattenTree[idx].absolute_path).isFunction

\* C12: the hook is invoked at most once per file and run, only for files
\* whose load yielded a usable handler, and once for each of them when the
\* run has returned; every gate evaluation of a file comes after its hook
\* invocation; and what the hook wrote decides the verdict: a hook that
\* sets skip leaves every file it saw unbound with no gate evaluation, and
\* a hook that sets environments to production makes the gate's verdict
\* "the current environment is production".
C12_HookOrdering ==
    /\ \A idx \in Positions :
          /\ Cardinality(HookCalls(idx)) <= 1
          /\ HookCalls(idx) # {} => UsableHandler(idx)
          /\ \A g \in GateCalls(idx) : \E h \in HookCalls(idx) : h < g
          /\ (options.beforeRegistration = "skip_inplace" /\ HookCalls(idx) # {})
                => (GateCalls(idx) = {} /\ BindsOf(idx) = <<>>)
          /\ (options.beforeRegistration = "edit_inplace"
                /\ ~Module(flattenTree[idx].absolute_path).routeOptions.skip)
                => /\ \A g \in GateCalls(idx) :
                         calls[g].verdict = (env = "production")
                   /\ (BindsOf(idx) # <<>>) => env = "production"
    /\ pc = "returned" =>
          \A idx \in Positions :
              Cardinality(HookCalls(idx)) = (IF UsableHandler(idx) THEN 1 ELSE 0)

\* C12 witness: a run with the hook that sets environments has returned in
\* development; the first file was refused by the gate after its hook call,
\* the second file's load failed and the empty file was loaded, and neither
\* was handed to the hook.
C12_Witness ==
    /\ pc = "returned"
    /\ options.beforeRegistration = "edit_inplace"
    /\ env = "development"
    /\ \E g \in GateCalls(1) : ~calls[g].verdict
    /\ 2 \in loadFailed /\ HookCalls(2) = {}
    /\ 4 \notin loadFailed /\ HookCalls(4) = {}

\* the schema the hook returns for the file at position idx
HookReturned(idx) ==
    beforeRegistration(
        createRouteSchema(FALSE, Module(flattenTree[idx].absolute_path).stack,
                          getRouteOptions(Module(flattenTree[idx].absolute_path)),
                          flattenTree[idx], runId, idx)).schema

\* C13 (as claimed): when a run has returned and the hook returns an
\* object, every file handed to the hook has one record, which carries the
\* basePath of the schema the hook returned and a final status Registered,
\* Skipped or Error, and a route bound for it is bound at that basePath.
C13_HookChangesReflected ==
    (pc = "returned" /\ options.beforeRegistration # "nonobject") =>
        \A idx \in Positions :
            HookCalls(idx) # {} =>
               /\ Len(RecordsOf(idx)) = 1
               /\ RecordsOf(idx)[1].base_path = HookReturned(idx).base_path
               /\ RecordsOf(idx)[1].status \in {"registered", "skipped", "error"}
               /\ \A b \in 1..Len(BindsOf(idx)) :
                     BindsOf(idx)[b].base_path = HookReturned(idx).base_path

-----------------------------------------------------------------------------
(* Record invariants *)

\* C14 (as claimed): after a non-strict run with the identity hook, every
\* record with status Error has its error set and every record with status
\* Skipped has its message set.
C14_StatusInvariants ==
    (pc = "returned" /\ ~options.strictMode
        /\ options.beforeRegistration = "identity") =>
        \A k \in 1..Len(registry) :
            /\ registry[k].status = "error" => registry[k].error # NoText
            /\ registry[k].status = "skipped" => registry[k].message # NoText

\* C15: after any run with the identity hook, strict or not, every record
\* of the registry has an empty layers sequence exactly when its basePath
\* is null.
C15_LayersBasePath ==
    options.beforeRegistration = "identity" =>
        \A k \in 1..Len(registry) :
            (registry[k].layers = <<>>) <=> (registry[k].base_path = NULL_PATH)

\* C15 witness: a run with the identity hook has returned with a record
\* that has layers and a basePath beside a record that has neither.
C15_Witness ==
    /\ pc = "returned"
    /\ options.beforeRegistration = "identity"
    /\ \E k \in 1..Len(registry) :
          registry[k].layers # <<>> /\ registry[k].base_path # NULL_PATH
    /\ \E k \in 1..Len(registry) :
          registry[k].layers = <<>> /\ registry[k].base_path = NULL_PATH

\* the files of flattenTree whose module has no function as default export
\* and whose load did not throw in this run
EmptyHandler(idx) ==
    /\ idx \notin loadFailed
    /\ ~Module(flattenTree[idx].absolute_path).isFunction

\* C16: when a non-strict run has returned, a file whose module has no
\* function as default export has exactly one record, with basePath null,
\* no layers, status Skipped and the explanatory error; it is not bound and
\* neither the hook nor the gate was invoked for it.
C16_EmptyHandler ==
    (pc = "returned" /\ ~options.strictMode) =>
        \A idx \in Positions :
            EmptyHandler(idx) =>
               /\ Len(RecordsOf(idx)) = 1
               /\ RecordsOf(idx)[1].base_path = NULL_PATH
               /\ RecordsOf(idx)[1].layers = <<>>
               /\ RecordsOf(idx)[1].status = "skipped"
               /\ RecordsOf(idx)[1].error = EMPTY_HANDLER_ERROR
               /\ BindsOf(idx) = <<>>
               /\ HookCalls(idx) = {} /\ GateCalls(idx) = {}

\* C16 witness: a non-strict run with a hook that edits every schema it is
\* given has returned, and the file without a function export was loaded.
C16_Witness ==
    /\ pc = "returned"
    /\ ~options.strictMode
    /\ options.beforeRegistration = "edit_inplace"
    /\ EmptyHandler(4)
    /\ Len(RecordsOf(4)) = 1

-----------------------------------------------------------------------------
(* Claims about slug rewriting (checked under SpecSlug) *)

\* C17 (as claimed): rewriting the slugs of an already rewritten path
\* changes nothing, for every path and every constraint map.
C17_SlugIdempotent ==
    urlCase.phase = "twice" => urlCase.twice = urlCase.once

\* whether the constraint map has an entry for name, and its pattern
HasConstraint(entries, name) ==
    \E k \in 1..Len(entries) : entries[k].name = name

ConstraintOf(entries, name) ==
    entries[CHOOSE k \in 1..Len(entries) : entries[k].name = name].regex

\* the path with every marker [name], scanned left to right from pos on,
\* replaced at its own position by ":name" and, when a constraint for name
\* exists, "(constraint)"; every other character is copied
RECURSIVE MarkersReplaced(_, _, _)
MarkersReplaced(path, pos, entries) ==
    LET open == IndexFrom(path, <<"[">>, pos)
        close == IF open = 0 THEN 0 ELSE IndexFrom(path, <<"]">>, open + 1)
        name == SubSeq(path, open + 1, close - 1)
    IN IF open = 0 \/ close = 0 THEN SubSeq(path, pos, Len(path))
       ELSE SubSeq(path, pos, open - 1) \o <<":">> \o name
            \o (IF HasConstraint(entries, name)
                THEN <<"(">> \o ConstraintOf(entries, name) \o <<")">>
                ELSE <<>>)
            \o MarkersReplaced(path, close + 1, entries)

\* C18 (as claimed): the rewritten path is the path with each marker
\* replaced at its own position, independently of the other markers and of
\* the constraints already inserted, all other characters unchanged.
C18_SlugResult ==
    urlCase.phase = "once" =>
        urlCase.once = MarkersReplaced(urlCase.path, 1, urlCase.paramsRegex.entries)

-----------------------------------------------------------------------------
(* Claims about route URL derivation (checked under SpecUrl) *)

\* the mount with one leading slash, empty when there is no mount
MountPrefix(opts) ==
    IF Len(opts.appMount) = 0 THEN <<>>
    ELSE IF opts.appMount[1] = "/" THEN opts.appMount
    ELSE <<"/">> \o opts.appMount

\* the route path of the directory dirs: the mount followed by the
\* directories, "/" for the root without a mount
RouteOfDirectory(dirs, opts) ==
    IF Len(MountPrefix(opts) \o JoinSegments(dirs)) = 0 THEN <<"/">>
    ELSE MountPrefix(opts) \o JoinSegments(dirs)

\* whether name is an extension-stripped entry of indexNames
IsIndexName(name, indexNames) ==
    \E k \in 1..Len(indexNames) : name \o <<".", "j", "s">> = indexNames[k]

\* C19 (as claimed): with isIndex unset, a file whose basename is an index
\* name gets the route path of its parent directory as basePath, which
\* does not end in that basename; any other file keeps its basename as the
\* last segment of basePath.
C19_IndexByName ==
    (urlCase.phase = "out" /\ urlCase.routeOptions.isIndex = "null") =>
        IF IsIndexName(urlCase.name, urlCase.opts.indexNames)
        THEN /\ urlCase.basePath = RouteOfDirectory(urlCase.dirs, urlCase.opts)
             /\ ~EndsWith(urlCase.basePath, <<"/">> \o urlCase.name)
        ELSE EndsWith(urlCase.basePath, <<"/">> \o urlCase.name)

\* whether the file's basename segment equals the app mount, the case the
\* claim exempts from collapsing
IsMountSegment(name, opts) ==
    Len(opts.appMount) > 0 /\ <<"/">> \o name = MountPrefix(opts)

\* C20 (as claimed): with isIndex = true, basePath is the route path of the
\* parent directory (unless the file's segment equals the app mount); with
\* isIndex = false the basename stays the last segment of basePath even
\* when it is an index name.
C20_ExplicitIsIndex ==
    urlCase.phase = "out" =>
        /\ (urlCase.routeOptions.isIndex = "true"
              /\ ~IsMountSegment(urlCase.name, urlCase.opts))
              => urlCase.basePath = RouteOfDirectory(urlCase.dirs, urlCase.opts)
        /\ urlCase.routeOptions.isIndex = "false"
              => EndsWith(urlCase.basePath, <<"/">> \o urlCase.name)

\* C21 (as claimed): with a non-empty appMount, basePath is the mount (with
\* one leading slash) followed by the file's root-relative route path, so
\* it begins with the mount as its leading segment. Stated for files with
\* isIndex = false, whose root-relative route path is their directories
\* followed by their basename.
C21_AppMount ==
    (urlCase.phase = "out" /\ Len(urlCase.opts.appMount) > 0
        /\ urlCase.routeOptions.isIndex = "false") =>
        /\ urlCase.basePath =
              MountPrefix(urlCase.opts) \o JoinSegments(urlCase.dirs)
                  \o <<"/">> \o urlCase.name
        /\ StartsWith(urlCase.basePath, MountPrefix(urlCase.opts) \o <<"/">>)

\* no "/" directly followed by another "/"
NoDoubleSlash(p) ==
    \A i \in 1..(Len(p) - 1) : ~(p[i] = "/" /\ p[i + 1] = "/")

\* C22 (as claimed): the complete path of every layer is basePath when the
\* extended path is "/" and basePath followed by the extended path
\* otherwise; it starts with "/" and contains no double slash, for every
\* basePath including the root "/".
C22_CompletePath ==
    urlCase.phase = "out" =>
        \A k \in 1..Len(urlCase.schema.layers) :
            /\ urlCase.schema.layers[k].complete_path =
                  IF urlCase.schema.layers[k].extended_path = <<"/">>
                  THEN urlCase.schema.base_path
                  ELSE urlCase.schema.base_path
                           \o urlCase.schema.layers[k].extended_path
            /\ Head(urlCase.schema.layers[k].complete_path) = "/"
            /\ NoDoubleSlash(urlCase.schema.layers[k].complete_path)

\* whether out is the tree in with the absolute path of every node, at
\* every depth, replaced by the token and everything else as it was
RECURSIVE TreeRedacted(_, _)
TreeRedacted(in, out) ==
    /\ out.absolute_path = REDACT_TOKEN
    /\ out.type = in.type
    /\ Len(out.children) = Len(in.children)
    /\ \A k \in 1..Len(in.children) : TreeRedacted(in.children[k], out.children[k])

\* whether out is the registry in with every record's absolute path
\* replaced by the token and every other field as it was
RegistryRedacted(in, out) ==
    /\ Len(out) = Len(in)
    /\ \A k \in 1..Len(in) :
          /\ out[k].absolute_path = REDACT_TOKEN
          /\ [out[k] EXCEPT !.absolute_path = in[k].absolute_path] = in[k]

\* whether the two files were written
Written ==
    /\ urlCase.phase = "out"
    /\ urlCase.saved.written

\* C23: with redactOutputFilePaths the written registry and tree carry the
\* token in place of every absolute path (every node at every depth) and
\* are otherwise the inputs; without it they equal the inputs; either way
\* the registry the engine returns is the one it had before saving.
C23_Redaction ==
    /\ urlCase.phase = "out" => urlCase.saved.registry = urlCase.registry
    /\ Written =>
          IF urlCase.opts.redactOutputFilePaths
          THEN /\ RegistryRedacted(urlCase.registry,
                                   urlCase.saved.route_registry_json)
               /\ TreeRedacted(urlCase.tree, urlCase.saved.tree_node_json)
          ELSE /\ urlCase.saved.route_registry_json = urlCase.registry
               /\ urlCase.saved.tree_node_json = urlCase.tree

\* C23 witness: a registry of two records and the tree with a nested
\* directory were written redacted.
C23_Witness ==
    /\ Written
    /\ urlCase.opts.redactOutputFilePaths
    /\ Len(urlCase.registry) = 2
    /\ urlCase.tree = TreeNode
    /\ urlCase.saved.tree_node_json.children[2].children[1].absolute_path
          = REDACT_TOKEN

\* the entries of a paramsRegex object whose values are strings or
\* patterns, each with its text as a string
RECURSIVE StringEntries(_)
StringEntries(entries) ==
    IF Len(entries) = 0 THEN <<>>
    ELSE (IF Head(entries).kind = "string" \/ Head(entries).kind = "RegExp"
          THEN <<[name |-> Head(entries).name, kind |-> "string",
                  regex |-> Head(entries).regex]>>
          ELSE <<>>)
         \o StringEntries(Tail(entries))

\* the environments a resolved result must carry for the exported value
ExpectedEnvironments(raw) ==
    IF raw.isObject /\ raw.environments.kind = "string"
    THEN [isArray |-> TRUE, items |-> raw.environments.items]
    ELSE IF raw.isObject /\ raw.environments.kind = "array"
            /\ Len(raw.environments.items) > 0
    THEN [isArray |-> TRUE, items |-> raw.environments.items]
    ELSE [isArray |-> FALSE, items |-> <<>>]

\* C24 (as claimed): resolving the options a file exports yields a fully
\* populated, type-correct result: environments unset or a non-empty list
\* (a string becomes a one-element list, an empty list or a non-list is
\* unset), isIndex true, false or unset, skip a boolean, paramsRegex a map
\* of names to strings (a pattern becomes its source, other values are
\* dropped), metadata a map; every absent or ill-typed field takes its
\* default and every legal value passes through.
C24_ResolverTotal ==
    urlCase.phase = "out" =>
        /\ Deref(urlCase.resolved).environments = ExpectedEnvironments(urlCase.raw)
        /\ Deref(urlCase.resolved).isIndex =
              IF urlCase.raw.isObject /\ urlCase.raw.isIndex \in {"true", "false"}
              THEN urlCase.raw.isIndex ELSE "null"
        /\ Deref(urlCase.resolved).skip = (urlCase.raw.isObject /\ urlCase.raw.skip)
        /\ Deref(urlCase.resolved).paramsRegex.entries =
              IF urlCase.raw.isObject /\ urlCase.raw.paramsRegex.isObject
              THEN StringEntries(urlCase.raw.paramsRegex.entries) ELSE <<>>
        /\ Deref(urlCase.resolved).metadata =
              IF urlCase.raw.isObject /\ urlCase.raw.metadata = "{k}"
              THEN "{k}" ELSE "{}"

\* the invocations of the layer intercept hook made for layer k
InterceptsOf(k) ==
    SelectSeq(urlCase.intercepts, LAMBDA c : c.layer = k)

\* C25 (as claimed): a configured layer intercept hook is invoked exactly
\* once per method layer of the handler, with the layer's position and the
\* number of layers; a returned function replaces the bound handler
\* function and any other return leaves the original; layers, basePath and
\* complete paths of the schema are what they are without the hook, even
\* when the hook writes to the layer object it receives.
C25_LayerIntercept ==
    (urlCase.phase = "out" /\ urlCase.interceptLayerStack # "null") =>
        /\ \A k \in 1..Len(urlCase.stack) :
              /\ Len(InterceptsOf(k)) = 1
              /\ InterceptsOf(k)[1].index = k - 1
              /\ InterceptsOf(k)[1].stackSize = Len(urlCase.stack)
        /\ \A k \in 1..Len(urlCase.handles) :
              \A i \in 1..Len(urlCase.handles[k]) :
                  urlCase.handles[k][i] =
                      IF urlCase.interceptLayerStack = "wrap"
                      THEN "wrapped" ELSE "original"
        /\ \A k \in 1..Len(urlCase.schema.layers) :
              urlCase.schema.layers[k] =
                  routerLayer(urlCase.stack[k], urlCase.schema.base_path)

\* C26 (as claimed): for a root directory that does not exist, setOptions
\* raises in strict mode; in non-strict mode setOptions does not raise and
\* a following run() does not raise either and returns an empty registry.
C26_MissingDirectory ==
    (~existsSync(urlCase.directory) /\ urlCase.phase # "constructed") =>
        IF options.strictMode
        THEN urlCase.phase = "setOptions raised"
        ELSE /\ urlCase.phase = "configured"
             /\ pc \in {"idle", "scanning", "returned"}
             /\ pc = "returned" => registry = <<>>

\* the loads of the current run that have not settled
InFlight == {p \in pending : p.run = runId}

\* C27: a non-strict run in which every load settles (no load stays in
\* flight for ever) completes, and at completion every discovered file has
\* a record; a run does not complete and starts no load of a later chunk in
\* a step that leaves a load of the awaited chunk unsettled.
C27_RunCompletion ==
    /\ ([]<>(InFlight = {}))
          => ((pc = "scanning" /\ ~options.strictMode) ~> (pc = "returned"))
    /\ [](pc = "returned" /\ ~options.strictMode
             => \A idx \in Positions : Len(RecordsOf(idx)) > 0)
    /\ [][(pc = "running" /\ ~options.strictMode
              /\ InFlight # {} /\ InFlight \subseteq pending')
             => (pc' = "running" /\ chunkAt' = chunkAt
                    /\ \A p \in pending' : p.run = runId => p.idx \in Chunk(chunkAt))]_vars

\* C27 witness: a non-strict run over several chunks has completed with a
\* record for every file, one of them for a load that failed.
C27_Witness ==
    /\ pc = "returned"
    /\ ~options.strictMode
    /\ chunkAt > 1
    /\ loadFailed # {}
    /\ \A idx \in Positions : Len(RecordsOf(idx)) > 0

\* whether the file lies inside the directory, at any depth
Inside(directory, absolute_path) ==
    StartsWith(absolute_path, directory \o <<"/">>)

\* the environment keys of environmentRoutes that list a directory the
\* file lies inside
ContainingEnvs(g) ==
    IF g.environmentRoutes.isUndefined THEN {}
    ELSE { g.environmentRoutes.keys[k].env :
             k \in { i \in 1..Len(g.environmentRoutes.keys) :
                       /\ g.environmentRoutes.keys[i].isArray
                       /\ \E j \in 1..Len(g.environmentRoutes.keys[i].dirs) :
                            Inside(resolveFilePath(g.environmentRoutes.keys[i].dirs[j]),
                                   g.absolute_path) } }

\* C28 (as claimed): a directory entry of environmentRoutes bears on the
\* verdict only for files inside that directory: with environments unset
\* the verdict is true when no listed directory contains the file or one
\* that does is listed under the current environment, and false otherwise;
\* a file of a sibling directory whose name begins with the entry's
\* characters is not matched.
C28_Containment ==
    (gate.phase = "out" /\ ~gate.route_options.environments.isArray)
        => (gate.verdict <=>
              (ContainingEnvs(gate) = {} \/ env \in ContainingEnvs(gate)))

\* the options a file resolves to when they are resolved afresh from what
\* the file exports
FreshOptions(absolute_path) ==
    IF Module(absolute_path).routeOptions.isObject
    THEN parseRouteHandlerOptions(Module(absolute_path).routeOptions)
    ELSE DEFAULT_ROUTE_OPTIONS

\* whether the hook of the current options writes to the options of the file
HookWritesTo(absolute_path) ==
    \/ options.beforeRegistration \in {"skip_inplace", "edit_inplace"}
    \/ options.beforeRegistration = "skip_one" /\ absolute_path = P_b

\* C29 (as claimed): the options of each file are an object of its own, so
\* the record of a file whose options the hook does not write to carries
\* the options resolved from what the file exports, and is skipped by the
\* skip flag only if the file declares skip, whatever the hook wrote to the
\* options of other files in this run or in earlier runs.
C29_FreshOptions ==
    \A k \in 1..Len(registry) :
        (registry[k].run = runId
            /\ registry[k].route_options.ref # "empty"
            /\ ~HookWritesTo(registry[k].absolute_path))
        => /\ Deref(registry[k].route_options) = FreshOptions(registry[k].absolute_path)
           /\ registry[k].message = SKIP_MESSAGE
                 => FreshOptions(registry[k].absolute_path).skip

\* C30 (as claimed): for a successfully loaded handler, a function without
\* method layers included, every record with status Registered has a
\* non-null basePath that starts with "/" and carries the options resolved
\* for the handler; a record whose basePath is null is not Registered, and
\* no route is bound at a null path.
C30_NoRouteNoRegistration ==
    urlCase.phase = "out" =>
        /\ \A k \in 1..Len(registry) :
              /\ registry[k].status = "registered"
                    => /\ registry[k].base_path # NULL_PATH
                       /\ Head(registry[k].base_path) = "/"
                       /\ registry[k].route_options.ref
                             = getRouteOptions(urlCase.module).ref
              /\ registry[k].base_path = NULL_PATH
                    => registry[k].status # "registered"
        /\ \A k \in 1..Len(router) : router[k].base_path # NULL_PATH

====
